---- MODULE Spec2Model ----
(***************************************************************************)
(* Feed ingestion and curation pipeline of the API Security Reference     *)
(* Hub (src/js/common.js, lines 198-394): fetchFeed for every configured  *)
(* feed, parseRSS / extractTag over the fetched documents, isApiRelated,  *)
(* the 7-day window, the sort and the cap of main, and the write of       *)
(* data/news.json.                                                         *)
(*                                                                         *)
(* Text is a sequence of one-character strings.  An instant is a number   *)
(* of milliseconds since ORIGIN_DAY (2026-10-20T00:00:00Z), so that every *)
(* instant of the model fits a 32-bit integer; only differences of        *)
(* instants are ever used by the code.  A Date is <<>> (Invalid Date) or  *)
(* <<ms>>; an item's pubDate is <<>> (null) or <<ms>>, the instant its    *)
(* ISO string denotes.                                                     *)
(***************************************************************************)
EXTENDS Integers, Sequences, FiniteSets, TLC

\* ------------------------------------------------------------------ bounds

\* Feeds of FEEDS that the model runs (the first NumFeeds of the five).
NumFeeds == 2

\* Longest remote document, in item blocks.
MaxDocLen == 11

\* Longest input of the sanitizer specification, in tokens.
MaxTokens == 3

\* Length of the run of plain characters put before a long sanitizer input.
PadLen == 297

\* ------------------------------------------------------- program constants

FEEDS ==
  << [url |-> "https://feeds.feedburner.com/TheHackersNews", source |-> "The Hacker News"],
     [url |-> "https://www.bleepingcomputer.com/feed/", source |-> "BleepingComputer"],
     [url |-> "https://www.securityweek.com/feed/", source |-> "SecurityWeek"],
     [url |-> "https://portswigger.net/daily-swig/rss", source |-> "PortSwigger Daily Swig"],
     [url |-> "https://blog.cloudflare.com/tag/security/rss", source |-> "Cloudflare Blog"] >>

API_KEYWORDS ==
  {
    <<"a", "p", "i">>,
    <<"o", "a", "u", "t", "h">>,
    <<"j", "w", "t">>,
    <<"t", "o", "k", "e", "n">>,
    <<"a", "u", "t", "h", "e", "n", "t", "i", "c", "a", "t", "i", "o", "n", " ", "b", "y", "p", "a", "s", "s">>,
    <<"a", "u", "t", "h", "o", "r", "i", "z", "a", "t", "i", "o", "n">>,
    <<"s", "s", "r", "f">>,
    <<"i", "n", "j", "e", "c", "t", "i", "o", "n">>,
    <<"e", "n", "d", "p", "o", "i", "n", "t">>,
    <<"r", "e", "s", "t", " ", "a", "p", "i">>,
    <<"g", "r", "a", "p", "h", "q", "l">>,
    <<"w", "e", "b", "h", "o", "o", "k">>,
    <<"a", "p", "i", " ", "k", "e", "y">>,
    <<"r", "a", "t", "e", " ", "l", "i", "m", "i", "t">>,
    <<"c", "o", "r", "s">>,
    <<"o", "p", "e", "n", "a", "p", "i">>,
    <<"s", "w", "a", "g", "g", "e", "r">>,
    <<"m", "i", "c", "r", "o", "s", "e", "r", "v", "i", "c", "e">>,
    <<"a", "p", "i", " ", "g", "a", "t", "e", "w", "a", "y">>,
    <<"b", "r", "o", "k", "e", "n", " ", "a", "c", "c", "e", "s", "s">>,
    <<"b", "o", "l", "a">>,
    <<"i", "d", "o", "r">>,
    <<"c", "r", "e", "d", "e", "n", "t", "i", "a", "l">>,
    <<"o", "w", "a", "s", "p">>,
    <<"c", "v", "e", "-">>,
    <<"v", "u", "l", "n", "e", "r", "a", "b", "i", "l", "i", "t", "y">>,
    <<"e", "x", "p", "l", "o", "i", "t">>,
    <<"b", "r", "e", "a", "c", "h">>,
    <<"d", "a", "t", "a", " ", "l", "e", "a", "k">>,
    <<"d", "a", "t", "a", " ", "e", "x", "p", "o", "s", "u", "r", "e">>,
    <<"s", "e", "c", "u", "r", "i", "t", "y", " ", "f", "l", "a", "w">>
  }

SEVEN_DAYS_MS == 7 * 24 * 60 * 60 * 1000

\* recentItems.slice(0, 20)
TOP_LIMIT == 20

\* description ... .slice(0, 300)
DESC_LIMIT == 300

\* ------------------------------------------------------------ text helpers

Min(a, b) == IF a <= b THEN a ELSE b

MinOf(S) == CHOOSE x \in S : \A y \in S : x <= y

\* JavaScript's \s and the characters String.prototype.trim removes.
IsSpace(c) == c \in {" ", "\t", "\n", "\r"}

UpperCase == <<"A","B","C","D","E","F","G","H","I","J","K","L","M",
               "N","O","P","Q","R","S","T","U","V","W","X","Y","Z">>

LowerCase == <<"a","b","c","d","e","f","g","h","i","j","k","l","m",
               "n","o","p","q","r","s","t","u","v","w","x","y","z">>

LowerOf == [c \in {UpperCase[k] : k \in DOMAIN UpperCase} |->
              LowerCase[CHOOSE k \in DOMAIN UpperCase : UpperCase[k] = c]]

LowerChar(c) == IF c \in DOMAIN LowerOf THEN LowerOf[c] ELSE c

\* String.prototype.toLowerCase
toLowerCase(s) == [i \in 1..Len(s) |-> LowerChar(s[i])]

\* String.prototype.includes
includes(text, kw) ==
  \E i \in 1..(Len(text) - Len(kw) + 1) : \A k \in 1..Len(kw) : text[i + k - 1] = kw[k]

\* String.prototype.trim
trim(s) ==
  LET keep == {i \in 1..Len(s) : ~IsSpace(s[i])}
  IN  IF keep = {} THEN <<>>
      ELSE SubSeq(s, MinOf(keep), CHOOSE i \in keep : \A j \in keep : j <= i)

\* String.prototype.slice(0, n)
slice(s, n) == SubSeq(s, 1, Min(n, Len(s)))

\* s.replace(/pat/g, rep) for a literal pattern: leftmost matches, not overlapping,
\* the replacement text is not scanned again.
RECURSIVE replaceAll(_, _, _)
replaceAll(s, pat, rep) ==
  LET at == {i \in 1..(Len(s) - Len(pat) + 1) : \A k \in 1..Len(pat) : s[i + k - 1] = pat[k]}
  IN  IF at = {} THEN s
      ELSE SubSeq(s, 1, MinOf(at) - 1) \o rep
             \o replaceAll(SubSeq(s, MinOf(at) + Len(pat), Len(s)), pat, rep)

\* s.replace(/<[^>]*>/g, ''): a '<' with a '>' somewhere after it is removed
\* together with everything up to the first such '>'.
RECURSIVE stripTags(_)
stripTags(s) ==
  LET opens == {i \in DOMAIN s : s[i] = "<" /\ \E j \in (i + 1)..Len(s) : s[j] = ">"}
  IN  IF opens = {} THEN s
      ELSE LET i == MinOf(opens)
               j == MinOf({k \in (i + 1)..Len(s) : s[k] = ">"})
           IN  SubSeq(s, 1, i - 1) \o stripTags(SubSeq(s, j + 1, Len(s)))

\* s.replace(/\s+/g, ' '): every maximal run of whitespace becomes one space.
RECURSIVE collapseSpace(_)
collapseSpace(s) ==
  LET spaces == {i \in DOMAIN s : IsSpace(s[i])}
  IN  IF spaces = {} THEN s
      ELSE LET i == MinOf(spaces)
               rest == {k \in (i + 1)..Len(s) : ~IsSpace(s[k])}
           IN  IF rest = {} THEN SubSeq(s, 1, i - 1) \o <<" ">>
               ELSE SubSeq(s, 1, i - 1) \o <<" ">>
                      \o collapseSpace(SubSeq(s, MinOf(rest), Len(s)))

\* The six entity replacements of lines 286-291, in the order the code applies them.
decodeEntities(s) ==
  LET s1 == replaceAll(s,  <<"&","n","b","s","p",";">>, <<" ">>)
      s2 == replaceAll(s1, <<"&","a","m","p",";">>, <<"&">>)
      s3 == replaceAll(s2, <<"&","l","t",";">>, <<"<">>)
      s4 == replaceAll(s3, <<"&","g","t",";">>, <<">">>)
      s5 == replaceAll(s4, <<"&","q","u","o","t",";">>, <<"\"">>)
  IN  replaceAll(s5, <<"&","#","0","3","9",";">>, <<"'">>)

\* The mutant of cleanDesc: whitespace collapsed before the entities are decoded.
cleanDescCollapseFirst(description) ==
  slice(trim(decodeEntities(collapseSpace(stripTags(description)))), DESC_LIMIT)

\* const cleanDesc = description.replace(...)....trim().slice(0, 300)
cleanDesc(description) ==
  slice(trim(collapseSpace(decodeEntities(stripTags(description)))), DESC_LIMIT)

\* ------------------------------------------------------------------- dates

Digits == <<"0","1","2","3","4","5","6","7","8","9">>

IsDigit(c) == \E k \in DOMAIN Digits : Digits[k] = c

DigitVal(c) == (CHOOSE k \in DOMAIN Digits : Digits[k] = c) - 1

\* Days from 1970-01-01 to the civil date y-m-d (proleptic Gregorian calendar).
DaysFromCivil(y, m, d) ==
  LET yy  == IF m <= 2 THEN y - 1 ELSE y
      era == yy \div 400
      yoe == yy - era * 400
      mp  == (m + 9) % 12
      doy == (153 * mp + 2) \div 5 + d - 1
      doe == yoe * 365 + yoe \div 4 - yoe \div 100 + doy
  IN  era * 146097 + doe - 719468

ORIGIN_DAY == DaysFromCivil(2026, 10, 20)

MS_PER_DAY == 24 * 60 * 60 * 1000

\* new Date(text) for the texts the model's documents hold: the date-only ISO form
\* YYYY-MM-DD is midnight UTC of that day; any other text is an Invalid Date (<<>>).
DateParse(text) ==
  IF /\ Len(text) = 10
     /\ text[5] = "-" /\ text[8] = "-"
     /\ \A i \in {1, 2, 3, 4, 6, 7, 9, 10} : IsDigit(text[i])
  THEN LET y == 1000 * DigitVal(text[1]) + 100 * DigitVal(text[2])
                + 10 * DigitVal(text[3]) + DigitVal(text[4])
           m == 10 * DigitVal(text[6]) + DigitVal(text[7])
           d == 10 * DigitVal(text[9]) + DigitVal(text[10])
       IN  IF m \in 1..12 /\ d \in 1..31
           THEN << (DaysFromCivil(y, m, d) - ORIGIN_DAY) * MS_PER_DAY >>
           ELSE <<>>
  ELSE <<>>

\* new Date(item.pubDate).getTime() of a non-null pubDate
getTime(pubDate) == pubDate[1]

\* ----------------------------------------------------------------- parsing

(* An item block (the text itemRegex captures between <item> and </item>) is the
   sequence of its elements in document order, each [tag, text]: text is what the
   element encloses, whether inside a CDATA section (match[1]) or not (match[2]). *)

\* function extractTag(xml, tag)
extractTag(itemXml, tag) ==
  LET hits == {k \in DOMAIN itemXml : itemXml[k].tag = tag}
  IN  IF hits = {} THEN <<>>
      ELSE trim(itemXml[MinOf(hits)].text)

\* The record parseRSS pushes for one item block whose date text parses (or is empty).
parseItem(itemXml, source) ==
  LET pubDate == extractTag(itemXml, "pubDate")
  IN  [ title       |-> extractTag(itemXml, "title"),
        link        |-> extractTag(itemXml, "link"),
        pubDate     |-> IF pubDate # <<>> THEN DateParse(pubDate) ELSE <<>>,
        description |-> cleanDesc(extractTag(itemXml, "description")),
        source      |-> source ]

\* Whether new Date(pubDate).toISOString() throws RangeError for this block.
toISOStringThrows(itemXml) ==
  LET pubDate == extractTag(itemXml, "pubDate")
  IN  pubDate # <<>> /\ DateParse(pubDate) = <<>>

\* function parseRSS(xml, source): the items, or the exception that leaves the loop.
parseRSS(xml, source) ==
  IF \E k \in DOMAIN xml : toISOStringThrows(xml[k])
  THEN [threw |-> TRUE, items |-> <<>>]
  ELSE [threw |-> FALSE, items |-> [k \in DOMAIN xml |-> parseItem(xml[k], source)]]

\* ---------------------------------------------------------------- relevance

\* kw.toLowerCase() for each keyword of API_KEYWORDS (line 311).
LowerKeywords == {toLowerCase(kw) : kw \in API_KEYWORDS}

\* The mutant of isApiRelated: the text is not lower-cased.
isApiRelatedCaseSensitive(item) ==
  LET text == item.title \o <<" ">> \o item.description
  IN  \E kw \in LowerKeywords : includes(text, kw)

\* function isApiRelated(item)
isApiRelated(item) ==
  LET text == toLowerCase(item.title \o <<" ">> \o item.description)
  IN  \E kw \in LowerKeywords : includes(text, kw)

\* ------------------------------------------------------- remote documents

FeedIds == 1..NumFeeds

TwoDigits(n) == << Digits[(n \div 10) + 1], Digits[(n % 10) + 1] >>

\* The date text "2026-mm-dd".
DateText(m, d) == <<"2","0","2","6","-">> \o TwoDigits(m) \o <<"-">> \o TwoDigits(d)

Element(tag, text) == [tag |-> tag, text |-> text]

\* Entry j of a feed of relevant news, newest first, two entries a day from
\* 2026-10-29 back; the descriptions carry markup and entities.
NewsEntry(j) ==
  << Element("title", CASE j % 3 = 1 -> <<"A","P","I"," ","b","u","g">>
                        [] j % 3 = 2 -> <<" ","J","w","t"," ">>
                        [] OTHER     -> <<"c","v","e","-","1">>),
     Element("link", <<"/","n">> \o TwoDigits(j)),
     Element("pubDate", DateText(10, 29 - (j - 1) \div 2)),
     Element("description", IF j % 2 = 1
                            THEN <<"<","b",">","f","i","x","<","/","b",">">>
                            ELSE <<"a"," ","&","a","m","p",";","\n"," ","b">>) >>

\* Entry j of a feed of anomalies, a cycle of eight.
OddEntry(j) ==
  LET link == Element("link", <<"/","o">> \o TwoDigits(j))
      recent == Element("pubDate", DateText(10, 28))
  IN  CASE j % 8 = 1 -> \* no keyword
             << Element("title", <<"c","o","f","f","e","e">>), link, recent,
                Element("description", <<"s","h","o","p">>) >>
        [] j % 8 = 2 -> \* no pubDate element
             << Element("title", <<"a","p","i"," ","k","e","y">>), link,
                Element("description", <<"x">>) >>
        [] j % 8 = 3 -> \* a keyword only when title and description are joined directly
             << Element("title", <<"o","w">>), link, recent,
                Element("description", <<"a","s","p">>) >>
        [] j % 8 = 4 -> \* a keyword across the separating space
             << Element("title", <<"r","a","t","e">>), link, recent,
                Element("description", <<"l","i","m","i","t">>) >>
        [] j % 8 = 5 -> \* neither title nor description
             << link, recent >>
        [] j % 8 = 6 -> \* dated after every clock reading of the model
             << Element("title", <<"S","S","R","F">>), link,
                Element("pubDate", DateText(11, 5)) >>
        [] j % 8 = 7 -> \* older than seven days at every clock reading of the model
             << Element("title", <<"b","o","l","a">>), link,
                Element("pubDate", DateText(10, 20)) >>
        [] OTHER     -> \* an empty pubDate element, and two title elements
             << Element("title", <<"i","d","o","r">>), Element("title", <<"n","o">>), link,
                Element("pubDate", <<" "," ">>) >>

\* Entry j of a feed whose every second item carries a date text that does not parse.
BadEntry(j) ==
  << Element("title", <<"A","P","I">>),
     Element("link", <<"/","b">> \o TwoDigits(j)),
     Element("pubDate", IF j % 2 = 1 THEN DateText(10, 29) ELSE <<"s","o","o","n">>) >>

Patterns == {"news", "odd", "bad"}

Entry(p, j) ==
  CASE p = "news" -> NewsEntry(j)
    [] p = "odd"  -> OddEntry(j)
    [] OTHER      -> BadEntry(j)

DocLens == {0, 1, 2, MaxDocLen}

\* The first n item blocks of a feed.
RemoteDoc(p, n) == [j \in 1..n |-> Entry(p, j)]

\* The bodies a remote may deliver (res.text()).
Documents == {RemoteDoc(p, n) : p \in Patterns, n \in DocLens}

\* The statuses a remote may answer with (res.status); res.ok is 200..299.
HttpStatuses == {200, 503}

resOk(status) == status \in 200..299

\* The readings of Date.now() at line 357: 2026-10-29T06:00Z, 2026-10-31T00:00Z and
\* one millisecond later.
NowValues == {9 * MS_PER_DAY + 6 * 60 * 60 * 1000, 11 * MS_PER_DAY, 11 * MS_PER_DAY + 1}

\* Milliseconds that may pass between Date.now() (line 357) and new Date() (line 373).
ClockSteps == {0, 1}

\* --------------------------------------------------------------------- state

VARIABLES
  pc,           \* main: "start", "join" (awaiting Promise.all), "done", "fatal" (exit code 1)
  phase,        \* per feed, fetchFeed: "idle", "headers" (awaiting fetch), "body"
                \* (awaiting res.text()), "settled"
  timer,        \* per feed, the setTimeout of line 318: "none", "armed", "cleared", "fired"
  response,     \* per feed, what the remote did: [kind, status, xml]
  results,      \* per feed, the value fetchFeed's promise resolved to
  settleOrder,  \* the feeds in the order their fetchFeed settled
  allItems,     \* main's locals: results.flat(),
  apiItems,     \* the items isApiRelated keeps,
  recentItems,  \* those of them inside the window (as counted at line 363),
  now,          \* and Date.now() of line 357
  output,       \* content of data/news.json
  writes,       \* number of fs.writeFileSync calls that returned
  rawText,      \* sanitizer specification: the input,
  once,         \* its sanitized form,
  twice,        \* that form sanitized again,
  sanPc         \* and the position: "off", "raw", "once", "twice"

pipelineVars ==
  << pc, phase, timer, response, results, settleOrder,
     allItems, apiItems, recentItems, now, output, writes >>

sanVars == << rawText, once, twice, sanPc >>

vars == << pipelineVars, sanVars >>

NoResponse == [kind |-> "none", status |-> 0, xml |-> <<>>]

PipelineInit ==
  /\ pc = "start"
  /\ phase = [i \in FeedIds |-> "idle"]
  /\ timer = [i \in FeedIds |-> "none"]
  /\ response = [i \in FeedIds |-> NoResponse]
  /\ results = [i \in FeedIds |-> <<>>]
  /\ settleOrder = <<>>
  /\ allItems = <<>>
  /\ apiItems = <<>>
  /\ recentItems = <<>>
  /\ now = 0
  /\ output = [lastUpdated |-> 0, itemCount |-> 0, items |-> <<>>]
  /\ writes = 0

SanOff ==
  /\ rawText = <<>>
  /\ once = <<>>
  /\ twice = <<>>
  /\ sanPc = "off"

Init == PipelineInit /\ SanOff

\* ----------------------------------------------------------------- fetchFeed

\* The ascending sequence of a set of feed ids.
RECURSIVE SeqOfSet(_)
SeqOfSet(S) ==
  IF S = {} THEN <<>>
  ELSE <<MinOf(S)>> \o SeqOfSet(S \ {MinOf(S)})

\* fetchFeed(FEEDS[i]) returns `items`, the remote having done `resp`.
Settle(i, resp, items) ==
  /\ phase' = [phase EXCEPT ![i] = "settled"]
  /\ response' = [response EXCEPT ![i] = resp]
  /\ results' = [results EXCEPT ![i] = items]
  /\ settleOrder' = Append(settleOrder, i)

\* The mutant of signalOf: one AbortController shared by every fetchFeed call.
signalShared(i) == FeedIds

\* The fetches that controller.abort() of call i aborts: `controller` is a local of
\* the call (line 317) and its signal is passed to that call's fetch alone (line 321).
signalOf(i) == {i}

\* Lines 348, 316-323: main maps fetchFeed over FEEDS; each call runs to its first
\* await, having armed its timer and issued its request.
MainStart ==
  /\ pc = "start"
  /\ pc' = "join"
  /\ phase' = [i \in FeedIds |-> "headers"]
  /\ timer' = [i \in FeedIds |-> "armed"]
  /\ UNCHANGED << response, results, settleOrder, allItems, apiItems, recentItems,
                  now, output, writes, sanVars >>

\* Lines 320-330: fetch resolves with the response headers; the timer is cleared;
\* a status outside 200..299 returns [].
FetchResolves(i) ==
  /\ phase[i] = "headers"
  /\ \E status \in HttpStatuses :
       /\ timer' = [timer EXCEPT ![i] = "cleared"]
       /\ IF resOk(status)
          THEN /\ phase' = [phase EXCEPT ![i] = "body"]
               /\ response' = [response EXCEPT ![i] = [kind |-> "ok", status |-> status, xml |-> <<>>]]
               /\ UNCHANGED << results, settleOrder >>
          ELSE Settle(i, [kind |-> "http_error", status |-> status, xml |-> <<>>], <<>>)
  /\ UNCHANGED << pc, allItems, apiItems, recentItems, now, output, writes, sanVars >>

\* Lines 320, 335-338: fetch rejects (DNS, connection, TLS); the catch returns [].
\* clearTimeout is not reached: the timer stays armed.
FetchRejects(i) ==
  /\ phase[i] = "headers"
  /\ Settle(i, [kind |-> "transport_error", status |-> 0, xml |-> <<>>], <<>>)
  /\ UNCHANGED << pc, timer, allItems, apiItems, recentItems, now, output, writes, sanVars >>

\* Line 318: the timer fires and aborts its controller; a fetch still awaiting its
\* response rejects with AbortError and the catch returns [].
TimeoutFires(i) ==
  /\ timer[i] = "armed"
  /\ timer' = [timer EXCEPT ![i] = "fired"]
  /\ LET hit == {j \in signalOf(i) : phase[j] = "headers"}
     IN  /\ phase' = [j \in FeedIds |-> IF j \in hit THEN "settled" ELSE phase[j]]
         /\ response' = [j \in FeedIds |->
                           IF j \in hit THEN [kind |-> "timeout", status |-> 0, xml |-> <<>>]
                           ELSE response[j]]
         /\ results' = [j \in FeedIds |-> IF j \in hit THEN <<>> ELSE results[j]]
         /\ settleOrder' = settleOrder \o SeqOfSet(hit)
  /\ UNCHANGED << pc, allItems, apiItems, recentItems, now, output, writes, sanVars >>

\* Lines 331-338: res.text() resolves with the body; parseRSS runs; an exception
\* inside it is caught and [] returned.
BodyArrives(i) ==
  /\ phase[i] = "body"
  /\ \E xml \in Documents :
       LET parsed == parseRSS(xml, FEEDS[i].source)
       IN  Settle(i, [response[i] EXCEPT !.xml = xml],
                  IF parsed.threw THEN <<>> ELSE parsed.items)
  /\ UNCHANGED << pc, timer, allItems, apiItems, recentItems, now, output, writes, sanVars >>

\* Lines 331, 335-338: res.text() rejects (the connection drops inside the body).
BodyFails(i) ==
  /\ phase[i] = "body"
  /\ Settle(i, [kind |-> "transport_error", status |-> 0, xml |-> <<>>], <<>>)
  /\ UNCHANGED << pc, timer, allItems, apiItems, recentItems, now, output, writes, sanVars >>

\* ---------------------------------------------------------------------- main

AllSettled == \A i \in FeedIds : phase[i] = "settled"

\* The mutant of joinReady: main resumes as soon as one fetchFeed has settled.
joinOnFirstSettled == \E i \in FeedIds : phase[i] = "settled"

\* await Promise.all(FEEDS.map(fetchFeed)): every promise has resolved (none rejects).
joinReady == AllSettled

RECURSIVE flatUpTo(_, _)
flatUpTo(res, n) == IF n = 0 THEN <<>> ELSE flatUpTo(res, n - 1) \o res[n]

RECURSIVE flatInOrder(_, _)
flatInOrder(res, order) ==
  IF order = <<>> THEN <<>> ELSE res[Head(order)] \o flatInOrder(res, Tail(order))

\* The mutant of flatResults: the results gathered in the order the fetches settled.
flatResultsBySettleOrder == flatInOrder(results, settleOrder)

\* results.flat(): Promise.all keeps the order of FEEDS.
flatResults == flatUpTo(results, NumFeeds)

\* The filter callback of lines 358-362.
isRecent(item, t) ==
  IF item.pubDate = <<>> THEN FALSE
  ELSE t - getTime(item.pubDate) <= SEVEN_DAYS_MS

\* The mutant of compareFn: oldest first.
compareOldestFirst(a, b) == getTime(a.pubDate) - getTime(b.pubDate)

\* (a, b) => new Date(b.pubDate) - new Date(a.pubDate)
compareFn(a, b) == getTime(b.pubDate) - getTime(a.pubDate)

\* Array.prototype.sort with compareFn: stable (ECMAScript 2019).  Each element is
\* put after the elements already placed that do not sort after it.
RECURSIVE sort(_)
sort(s) ==
  IF s = <<>> THEN <<>>
  ELSE LET placed == sort(SubSeq(s, 1, Len(s) - 1))
           x == s[Len(s)]
           p == Cardinality({k \in DOMAIN placed : compareFn(placed[k], x) <= 0})
       IN  SubSeq(placed, 1, p) \o <<x>> \o SubSeq(placed, p + 1, Len(placed))

\* The mutant of selectTop: the cap applied before the sort.
selectTopCapFirst(recent) == sort(slice(recent, TOP_LIMIT))

\* Lines 366-369: recentItems.sort(...); finalItems = recentItems.slice(0, 20)
selectTop(recent) == slice(sort(recent), TOP_LIMIT)

\* Lines 349-390, run without interruption once Promise.all has resolved: merge,
\* filter, sort, cap, and write data/news.json.  mkdirSync or writeFileSync may throw
\* (lines 386-387): main rejects and main().catch exits with code 1 (lines 392-395).
MainJoin ==
  /\ pc = "join"
  /\ joinReady
  /\ \E all \in {flatResults} :
       \E api \in {SelectSeq(all, isApiRelated)} :
         \E t \in NowValues :
           LET Recent(item) == isRecent(item, t)
           IN  \E recent \in {SelectSeq(api, Recent)} :
                 \E final \in {selectTop(recent)} :
                   /\ allItems' = all
                   /\ apiItems' = api
                   /\ recentItems' = recent
                   /\ now' = t
                   /\ \/ /\ \E step \in ClockSteps :
                             output' = [lastUpdated |-> t + step,
                                        itemCount |-> Len(final),
                                        items |-> final]
                         /\ writes' = writes + 1
                         /\ pc' = "done"
                      \/ /\ UNCHANGED << output, writes >>
                         /\ pc' = "fatal"
  /\ UNCHANGED << phase, timer, response, results, settleOrder, sanVars >>

Next ==
  \/ MainStart
  \/ \E i \in FeedIds : FetchResolves(i)
  \/ \E i \in FeedIds : FetchRejects(i)
  \/ \E i \in FeedIds : TimeoutFires(i)
  \/ \E i \in FeedIds : BodyArrives(i)
  \/ \E i \in FeedIds : BodyFails(i)
  \/ MainJoin

Spec == Init /\ [][Next]_vars

\* ---------------------------------------------------------- claims: pipeline

Range(s) == {s[k] : k \in DOMAIN s}

Written == writes > 0

\* The candidate pool in concatenation order: configured feed order, then document
\* order within a feed.
Pool == flatUpTo(results, NumFeeds)

FailureKinds == {"http_error", "transport_error", "timeout"}

\* C1: in every artifact main writes, items is ordered by non-increasing pubDate,
\* holds at most 20 elements, and itemCount is the number of elements of items.
C1_ArtifactSortedCappedCounted ==
  Written =>
    /\ \A k \in 1..(Len(output.items) - 1) :
         getTime(output.items[k].pubDate) >= getTime(output.items[k + 1].pubDate)
    /\ Len(output.items) <= 20
    /\ output.itemCount = Len(output.items)

\* An artifact at the cap whose first item is later than its last.
C1_Witness ==
  /\ Written
  /\ Len(output.items) = 20
  /\ getTime(output.items[1].pubDate) > getTime(output.items[20].pubDate)

\* C2: every item of the written artifact has a non-null pubDate inside the window
\* [lastUpdated - 7 days, lastUpdated].
C2_ItemsInsideTrailingWindow ==
  Written =>
    \A k \in DOMAIN output.items :
      /\ output.items[k].pubDate # <<>>
      /\ output.lastUpdated - 7 * 24 * 60 * 60 * 1000 <= getTime(output.items[k].pubDate)
      /\ getTime(output.items[k].pubDate) <= output.lastUpdated

\* What feed i contributes when its remote does `resp` and no other feed is looked at.
OwnContribution(i, resp) ==
  IF resp.kind = "ok"
  THEN LET parsed == parseRSS(resp.xml, FEEDS[i].source)
       IN  IF parsed.threw THEN <<>> ELSE parsed.items
  ELSE <<>>

\* C3: feed failures are isolated.  In every step, a fetch that has settled keeps its
\* result; a fetch that settles with a failure resolves to the empty sequence; a fetch
\* is aborted only by its own timer; and a fetch that settles resolves to what its own
\* response yields, whatever the other feeds did.
C3_FailureIsolation ==
  [][\A i \in FeedIds :
       /\ phase[i] = "settled" =>
            /\ phase'[i] = "settled"
            /\ results'[i] = results[i]
            /\ response'[i] = response[i]
       /\ (phase[i] # "settled" /\ phase'[i] = "settled") =>
            /\ response'[i].kind \in FailureKinds \cup {"ok"}
            /\ response'[i].kind \in FailureKinds => results'[i] = <<>>
            /\ response'[i].kind = "timeout" => (timer[i] = "armed" /\ timer'[i] = "fired")
            /\ results'[i] = OwnContribution(i, response'[i])]_vars

\* A finished run in which one feed failed and another contributed items that reached
\* the artifact.
C3_Witness ==
  /\ pc = "done"
  /\ \E i, j \in FeedIds :
       /\ response[i].kind \in FailureKinds
       /\ response[j].kind = "ok"
       /\ results[j] # <<>>
       /\ \E k \in DOMAIN output.items : output.items[k].source = FEEDS[j].source

\* C4: parseRSS emits exactly one record for every item block of a fetched document,
\* in document order, with empty title or link and null pubDate for what is missing
\* or does not parse.
C4_OneRecordPerItemBlock ==
  \A i \in FeedIds :
    (phase[i] = "settled" /\ response[i].kind = "ok") =>
      /\ Len(results[i]) = Len(response[i].xml)
      /\ \A k \in DOMAIN results[i] :
           /\ results[i][k].title = extractTag(response[i].xml[k], "title")
           /\ results[i][k].link = extractTag(response[i].xml[k], "link")
           /\ results[i][k].pubDate = DateParse(extractTag(response[i].xml[k], "pubDate"))

\* C5: all fetches are started together; the artifact is written at most once, only
\* when every fetch has settled (with items or with the empty sequence), and exactly
\* once in every run that completes; main ends, with the write or with a storage
\* failure, only after the join, which no outcome of a fetch prevents.
C5_FanOutFanIn ==
  /\ (\A i \in FeedIds : phase[i] = "idle") \/ (\A i \in FeedIds : phase[i] # "idle")
  /\ writes <= 1
  /\ Written => \A i \in FeedIds : phase[i] = "settled"
  /\ (pc = "done") <=> (writes = 1)
  /\ pc = "fatal" => \A i \in FeedIds : phase[i] = "settled"

\* A finished run in which every feed failed and the artifact was still written, empty.
C5_Witness ==
  /\ pc = "done"
  /\ writes = 1
  /\ \A i \in FeedIds : response[i].kind \in FailureKinds
  /\ \E i, j \in FeedIds : response[i].kind # response[j].kind
  /\ output.itemCount = 0

\* C6: every fetch that has not settled is still under its timeout: its timer is armed.
C6_PendingFetchUnderTimeout ==
  \A i \in FeedIds : phase[i] \in {"headers", "body"} => timer[i] = "armed"

\* C7: with more than 20 items passing both filters the artifact holds exactly 20 and
\* no item left out is strictly later than an item included; with 20 or fewer, the
\* artifact holds all of them.
C7_TopTwenty ==
  Written =>
    LET items == output.items
        Count(x, s) == Cardinality({k \in DOMAIN s : s[k] = x})
    IN  /\ \A x \in Range(items) : Count(x, items) <= Count(x, recentItems)
        /\ IF Len(recentItems) > 20
           THEN /\ Len(items) = 20
                /\ \A x \in Range(recentItems) :
                     Count(x, items) < Count(x, recentItems) =>
                       \A k \in DOMAIN items : getTime(x.pubDate) <= getTime(items[k].pubDate)
           ELSE /\ Len(items) = Len(recentItems)
                /\ \A x \in Range(recentItems) : Count(x, items) = Count(x, recentItems)

\* More than 20 items qualified, spread over several days, and the artifact was written.
C7_Witness ==
  /\ Written
  /\ Len(recentItems) > 20
  /\ \E k, m \in DOMAIN recentItems :
       getTime(recentItems[k].pubDate) # getTime(recentItems[m].pubDate)

\* Whether some configured keyword, lower-cased, is a substring of `text`.
HasKeyword(text) ==
  \E kw \in LowerKeywords :
    \E p \in 1..(Len(text) - Len(kw) + 1) : SubSeq(text, p, p + Len(kw) - 1) = kw

\* The feed that settled last, while main awaits the join.
JustSettled == IF pc = "join" /\ settleOrder # <<>> THEN {settleOrder[Len(settleOrder)]} ELSE {}

\* C8 as stated: isApiRelated is true exactly when a keyword is a substring of the
\* lower-cased concatenation of title and summary, and only such items are written.
C8_RelevantIffKeywordInConcatenation ==
  /\ \A i \in JustSettled : \A k \in DOMAIN results[i] :
       isApiRelated(results[i][k])
         <=> HasKeyword(toLowerCase(results[i][k].title \o results[i][k].description))
  /\ Written => \A k \in DOMAIN output.items :
       HasKeyword(toLowerCase(output.items[k].title \o output.items[k].description))

\* C8 as amended: the text searched is title, one space, summary.
C8_RelevantIffKeywordInSpacedText ==
  /\ \A i \in JustSettled : \A k \in DOMAIN results[i] :
       isApiRelated(results[i][k])
         <=> HasKeyword(toLowerCase(results[i][k].title \o <<" ">> \o results[i][k].description))
  /\ Written => \A k \in DOMAIN output.items :
       HasKeyword(toLowerCase(output.items[k].title \o <<" ">> \o output.items[k].description))

\* An artifact with an item whose keyword is in upper case, from a pool that also held
\* an item with neither title nor summary and an item without any keyword.
C8_Witness ==
  /\ Written
  /\ \E k \in DOMAIN output.items : output.items[k].title = <<"S","S","R","F">>
  /\ \E k \in DOMAIN allItems : allItems[k].title = <<>> /\ allItems[k].description = <<>>
  /\ \E k \in DOMAIN allItems : allItems[k].title = <<"c","o","f","f","e","e">>
  /\ \A k \in DOMAIN output.items : output.items[k].title # <<"c","o","f","f","e","e">>

\* C10: the artifact's items are those of the pool that passed the filters, latest
\* first, items of equal publication time in concatenation order, cut to 20: a
\* function of the responses and the clock, not of the order the fetches settled in.
C10_OrderIndependentOfCompletion ==
  Written =>
    \A pool \in {Pool} :
      \A Q \in {{k \in DOMAIN pool : pool[k] \in Range(recentItems)}} :
        LET T(k) == getTime(pool[k].pubDate)
            Rank(k) == Cardinality({m \in Q : T(m) > T(k) \/ (T(m) = T(k) /\ m < k)})
        IN  /\ Len(output.items) = Min(20, Cardinality(Q))
            /\ \A k \in Q : Rank(k) < 20 => output.items[Rank(k) + 1] = pool[k]

\* The second feed settled first, and two items of equal publication time from
\* different feeds stand next to each other in the artifact.
C10_Witness ==
  /\ Written
  /\ settleOrder[1] # 1
  /\ \E k \in 1..(Len(output.items) - 1) :
       /\ output.items[k].pubDate = output.items[k + 1].pubDate
       /\ output.items[k].source = FEEDS[1].source
       /\ output.items[k + 1].source = FEEDS[2].source

\* ------------------------------------------------- sanitizer specification

RECURSIVE Concat(_)
Concat(ts) == IF ts = <<>> THEN <<>> ELSE Head(ts) \o Concat(Tail(ts))

SeqsUpTo(S, n) == UNION {[1..k -> S] : k \in 0..n}

\* Pieces of description text: entities, pieces of entities, markup and space.
SanTokens ==
  { <<"&","a","m","p",";">>, <<"a","m","p",";">>, <<"&","l","t",";">>, <<"&","g","t",";">>,
    <<"&","n","b","s","p",";">>, <<"<">>, <<">">>, <<"b">>, <<" ">>, <<"\n">> }

Pad == [i \in 1..PadLen |-> "x"]

\* Descriptions up to MaxTokens pieces, bare or between two letters, and long ones
\* that reach the cut at DESC_LIMIT.
SanInputs ==
  {pre \o Concat(ts) \o post :
     pre \in {<<>>, <<"b">>}, post \in {<<>>, <<"b">>}, ts \in SeqsUpTo(SanTokens, MaxTokens)}
  \cup {Pad \o Concat(ts) \o <<"b">> : ts \in SeqsUpTo({<<"b">>, <<" ">>}, MaxTokens)}

SanInit ==
  /\ PipelineInit
  /\ rawText \in SanInputs
  /\ once = <<>>
  /\ twice = <<>>
  /\ sanPc = "raw"

SanitizeOnce ==
  /\ sanPc = "raw"
  /\ once' = cleanDesc(rawText)
  /\ sanPc' = "once"
  /\ UNCHANGED << rawText, twice, pipelineVars >>

SanitizeTwice ==
  /\ sanPc = "once"
  /\ twice' = cleanDesc(once)
  /\ sanPc' = "twice"
  /\ UNCHANGED << rawText, once, pipelineVars >>

SanNext == SanitizeOnce \/ SanitizeTwice

SanSpec == SanInit /\ [][SanNext]_vars

\* --------------------------------------------------------- claims: sanitizer

SanEntities ==
  { <<"&","n","b","s","p",";">>, <<"&","a","m","p",";">>, <<"&","l","t",";">>,
    <<"&","g","t",";">>, <<"&","q","u","o","t",";">>, <<"&","#","0","3","9",";">> }

\* Text with no tag sequence (a '<' followed somewhere by a '>'), none of the six
\* entities, and no whitespace at its end.
SanClean(y) ==
  /\ ~ \E i, j \in DOMAIN y : i < j /\ y[i] = "<" /\ y[j] = ">"
  /\ \A e \in SanEntities : ~ includes(y, e)
  /\ y = <<>> \/ ~ IsSpace(y[Len(y)])

====
